---- MODULE Spec2Model ----
(***************************************************************************)
(* Model of train.py of CalibNet_pytorch: the __main__ block, train() and  *)
(* val(), with the inner refinement loop (predict -> exp -> reproject),    *)
(* the optimizer/scheduler bookkeeping and the best/last checkpoints.      *)
(*                                                                         *)
(* Rigid transforms are 2x2 homogeneous matrices [[a,t],[0,1]] over Z_3    *)
(* (a in {1,2}, t in 0..2), a six-element non-commutative group standing   *)
(* for SE(3).  Point clouds and depth images are terms recording the batch *)
(* they come from and the transforms applied to them.                      *)
(***************************************************************************)
EXTENDS Integers, Sequences, FiniteSets

(* ---------------- bounds ---------------- *)
MaxDatasetLen == 3
MaxBatchSize == 2
MaxInnerIter == 2
MaxEpoch == 2
MaxRuns == 2

(* ---------------- rigid transforms ---------------- *)
Eye == <<1, 0>>

Bmm(x, y) == <<(x[1] * y[1]) % 3, (x[1] * y[2] + x[2]) % 3>>

RECURSIVE Product(_)
Product(s) == IF s = << >> THEN Eye ELSE Bmm(Product(SubSeq(s, 1, Len(s) - 1)), s[Len(s)])

(* twists the predictor may return: <<rotation generator, translation generator>> *)
Twists == {<<1, 0>>, <<0, 1>>}

(* utils.se3.exp: rotation generator 0 -> a = 1, 1 -> a = 2 (= -1); the     *)
(* translation is V(w) * v, with V(0) = 1 and V(1) = 2.                     *)
Exp(tw) == <<IF tw[1] = 0 THEN 1 ELSE 2, ((IF tw[1] = 0 THEN 1 ELSE 2) * tw[2]) % 3>>

(* ground-truth inverse transforms a validation batch may carry *)
IGTs == {<<1, 0>>, <<2, 1>>}

(* loss_utils.geodesic_distance: <<rotational error, translational error>> *)
geodesic_distance(g, gt) ==
    LET rel == (g[1] * gt[1]) % 3
        d == (g[2] - gt[2]) % 3
    IN <<IF rel = 1 THEN 0 ELSE 1, IF d = 0 THEN 0 ELSE 1>>

(* ---------------- tensors of a batch ---------------- *)
Pcd(split, idx, kind) == [split |-> split, idx |-> idx, kind |-> kind, applied |-> << >>]

DepthOf(pcd) == [depth_of |-> pcd]

(* utils.transform.DepthImgGenerator.__call__: <<depth image, point cloud>> *)
depth_generator(T, pcd) ==
    LET out == [pcd EXCEPT !.applied = Append(pcd.applied, T)]
    IN <<DepthOf(out), out>>

NoBatch == [split |-> "none", idx |-> 0, size |-> 0, igt |-> Eye]

NoPcd == Pcd("none", 0, "none")

(* ---------------- DataLoader ---------------- *)
DropLast(len, batch_size) == len % batch_size = 1

Loader(len, batch_size) == [len |-> len, batch_size |-> batch_size, drop_last |-> DropLast(len, batch_size)]

NumBatches(ld) ==
    IF ld.drop_last THEN ld.len \div ld.batch_size
    ELSE (ld.len + ld.batch_size - 1) \div ld.batch_size

BatchSize(ld, i) ==
    IF (i + 1) * ld.batch_size <= ld.len THEN ld.batch_size ELSE ld.len - i * ld.batch_size

NoLoader == [len |-> 0, batch_size |-> 1, drop_last |-> FALSE]

(* ---------------- floats ---------------- *)
(* a float is a fraction n/d; float('inf') is 1/0 *)
Inf == [n |-> 1, d |-> 0]

Div(total, len) == [n |-> total, d |-> len]

Less(x, y) == x.n * y.d < y.n * x.d

(* mutant: an equal loss counts as an improvement *)
ImprovesOrEqual(loss, best) == ~Less(best, loss)

Improves(loss, best) == Less(loss, best)

(* mutant: the resumed run starts at the checkpoint's own epoch *)
StartEpochSame(chkpt) == chkpt.epoch

(* ---------------- resume ---------------- *)
StartEpoch(chkpt) == chkpt.epoch + 1

ResumeMinLoss(chkpt) == chkpt.min_loss

(* mutant: the loop stops one iteration early *)
InnerLoopDoneEarly(i, n) == i + 1 >= n

InnerLoopDone(i, n) == i >= n

(* g0.bmm(extran): the product is computed and its result dropped *)
Accumulate(g, T) == LET product == Bmm(g, T) IN g

VARIABLES
    pc, run, exc,
    args, dataset, train_loader, val_loader,
    params, mode, optimizer, grads, scheduler,
    start_epoch, epoch, min_loss,
    bidx, batch, it, twist, extran,
    uncalibed_pcd, uncalibed_depth_img, g0,
    loss, total_dR, total_dT, loss_dx,
    files, writes, calls, val_hist, min0

cfgvars == <<args, dataset>>
loadervars == <<train_loader, val_loader>>
modelvars == <<params, mode, optimizer, grads, scheduler>>
runvars == <<start_epoch, epoch, min_loss, min0>>
batchvars == <<bidx, batch, it, twist, extran, uncalibed_pcd, uncalibed_depth_img, g0>>
valvars == <<total_dR, total_dT, loss_dx, val_hist>>
diskvars == <<files, writes>>

vars == <<pc, run, exc, cfgvars, loadervars, modelvars, runvars, batchvars, loss, valvars, diskvars, calls>>

NoLoss == [photo |-> <<DepthOf(NoPcd), DepthOf(NoPcd)>>, chamfer |-> <<NoPcd, NoPcd>>]

ProcessInit ==
    /\ exc = "none"
    /\ train_loader = NoLoader
    /\ val_loader = NoLoader
    /\ params = << >>
    /\ mode = "train"
    /\ optimizer = [steps |-> 0, lr_k |-> 0]
    /\ grads = << >>
    /\ scheduler = 0
    /\ start_epoch = 0
    /\ epoch = 0
    /\ min_loss = Inf
    /\ min0 = Inf
    /\ bidx = 0
    /\ batch = NoBatch
    /\ it = 0
    /\ twist = <<0, 0>>
    /\ extran = Eye
    /\ uncalibed_pcd = NoPcd
    /\ uncalibed_depth_img = DepthOf(NoPcd)
    /\ g0 = Eye
    /\ loss = NoLoss
    /\ total_dR = 0
    /\ total_dT = 0
    /\ loss_dx = Inf
    /\ calls = << >>
    /\ val_hist = << >>

Init ==
    /\ pc = "main"
    /\ run = 1
    /\ args \in [inner_iter : 0..MaxInnerIter, batch_size : 1..MaxBatchSize,
                 epoch : 1..MaxEpoch, resume : {""}]
    /\ dataset \in [train : 1..MaxDatasetLen, val : 1..MaxDatasetLen]
    /\ files = [best |-> << >>, last |-> << >>]
    /\ writes = [best |-> 0, last |-> 0]
    /\ ProcessInit


Img(b) == [img_of |-> <<b.split, b.idx>>]

Call(fn, in, out) == [fn |-> fn, in |-> in, out |-> out]

Checkpoint == [model |-> params, optimizer |-> optimizer, min_loss |-> min_loss, epoch |-> epoch]

(* the locals of a `for batch in loader` body are not read again once the   *)
(* loop is exhausted: they are reassigned by the next fetch before any use. *)
LoopLocalsDead ==
    /\ batch' = NoBatch
    /\ it' = 0
    /\ twist' = <<0, 0>>
    /\ extran' = Eye
    /\ uncalibed_pcd' = NoPcd
    /\ uncalibed_depth_img' = DepthOf(NoPcd)
    /\ loss' = NoLoss
    /\ calls' = << >>

(* ---------------- __main__ ---------------- *)
Main ==
    /\ pc = "main"
    /\ train_loader' = Loader(dataset.train, args.batch_size)
    /\ val_loader' = Loader(dataset.val, args.batch_size)
    /\ pc' = "train_init"
    /\ UNCHANGED <<run, exc, cfgvars, modelvars, runvars, batchvars, loss, valvars, diskvars, calls>>

(* ---------------- train(): set-up ---------------- *)
TrainInit ==
    /\ pc = "train_init"
    /\ IF args.resume # ""
       THEN LET chkpt == files[args.resume][1]
            IN /\ params' = chkpt.model
               /\ optimizer' = chkpt.optimizer
               /\ start_epoch' = StartEpoch(chkpt)
               /\ min_loss' = ResumeMinLoss(chkpt)
       ELSE /\ params' = << >>
            /\ optimizer' = [steps |-> 0, lr_k |-> 0]
            /\ start_epoch' = 0
            /\ min_loss' = Inf
    /\ epoch' = start_epoch'
    /\ min0' = min_loss'
    /\ scheduler' = 0
    /\ pc' = "epoch_head"
    /\ UNCHANGED <<run, exc, cfgvars, loadervars, mode, grads, batchvars, loss, valvars, diskvars, calls>>

(* mutant: model.train() is not called at the head of the epoch *)
EpochHeadNoTrainMode ==
    /\ pc = "epoch_head"
    /\ IF epoch < args.epoch
       THEN /\ mode' = mode
            /\ bidx' = 0
            /\ pc' = "train_fetch"
       ELSE /\ pc' = "done"
            /\ UNCHANGED <<mode, bidx>>
    /\ UNCHANGED <<run, exc, cfgvars, loadervars, params, optimizer, grads, scheduler, runvars,
                   batch, it, twist, extran, uncalibed_pcd, uncalibed_depth_img, g0,
                   loss, valvars, diskvars, calls>>

EpochHead ==
    /\ pc = "epoch_head"
    /\ IF epoch < args.epoch
       THEN /\ mode' = "train"
            /\ bidx' = 0
            /\ pc' = "train_fetch"
       ELSE /\ pc' = "done"
            /\ UNCHANGED <<mode, bidx>>
    /\ UNCHANGED <<run, exc, cfgvars, loadervars, params, optimizer, grads, scheduler, runvars,
                   batch, it, twist, extran, uncalibed_pcd, uncalibed_depth_img, g0,
                   loss, valvars, diskvars, calls>>

(* ---------------- train(): one batch ---------------- *)
TrainFetch ==
    /\ pc = "train_fetch"
    /\ IF bidx < NumBatches(train_loader)
       THEN /\ grads' = << >>
            /\ batch' = [split |-> "train", idx |-> bidx, size |-> BatchSize(train_loader, bidx), igt |-> Eye]
            /\ uncalibed_pcd' = Pcd("train", bidx, "uncalibed")
            /\ uncalibed_depth_img' = DepthOf(Pcd("train", bidx, "uncalibed"))
            /\ it' = 0
            /\ calls' = <<Call("zero_grad", << >>, << >>)>>
            /\ pc' = IF InnerLoopDone(0, args.inner_iter) THEN "train_loss" ELSE "train_predict"
            /\ UNCHANGED <<twist, extran, g0, loss>>
       ELSE /\ pc' = "train_epoch_end"
            /\ LoopLocalsDead
            /\ UNCHANGED <<grads, g0>>
    /\ UNCHANGED <<run, exc, cfgvars, loadervars, params, mode, optimizer, scheduler, runvars,
                   bidx, valvars, diskvars>>

TrainPredict ==
    /\ pc = "train_predict"
    /\ \E tw \in Twists :
          /\ twist' = tw
          /\ calls' = Append(calls, Call("model", <<Img(batch), uncalibed_depth_img>>, <<tw>>))
    /\ pc' = "train_exp"
    /\ UNCHANGED <<run, exc, cfgvars, loadervars, modelvars, runvars,
                   bidx, batch, it, extran, uncalibed_pcd, uncalibed_depth_img, g0,
                   loss, valvars, diskvars>>

TrainExp ==
    /\ pc = "train_exp"
    /\ extran' = Exp(twist)
    /\ calls' = Append(calls, Call("exp", <<twist>>, <<Exp(twist)>>))
    /\ pc' = "train_reproject"
    /\ UNCHANGED <<run, exc, cfgvars, loadervars, modelvars, runvars,
                   bidx, batch, it, twist, uncalibed_pcd, uncalibed_depth_img, g0,
                   loss, valvars, diskvars>>

(* mutant: the depth image returned by the reprojection is dropped *)
TrainReprojectStaleDepth ==
    /\ pc = "train_reproject"
    /\ LET r == depth_generator(extran, uncalibed_pcd)
       IN /\ uncalibed_depth_img' = uncalibed_depth_img
          /\ uncalibed_pcd' = r[2]
          /\ calls' = Append(calls, Call("depth_generator", <<extran, uncalibed_pcd>>, r))
    /\ it' = it + 1
    /\ pc' = IF InnerLoopDone(it + 1, args.inner_iter) THEN "train_loss" ELSE "train_predict"
    /\ UNCHANGED <<run, exc, cfgvars, loadervars, modelvars, runvars,
                   bidx, batch, twist, extran, g0, loss, valvars, diskvars>>

TrainReproject ==
    /\ pc = "train_reproject"
    /\ LET r == depth_generator(extran, uncalibed_pcd)
       IN /\ uncalibed_depth_img' = r[1]
          /\ uncalibed_pcd' = r[2]
          /\ calls' = Append(calls, Call("depth_generator", <<extran, uncalibed_pcd>>, r))
    /\ it' = it + 1
    /\ pc' = IF InnerLoopDone(it + 1, args.inner_iter) THEN "train_loss" ELSE "train_predict"
    /\ UNCHANGED <<run, exc, cfgvars, loadervars, modelvars, runvars,
                   bidx, batch, twist, extran, g0, loss, valvars, diskvars>>

(* mutant: the losses compare the reference with the uncalibrated inputs *)
TrainLossInputsUncalibed ==
    [photo |-> <<DepthOf(Pcd("train", batch.idx, "calibed")), DepthOf(Pcd("train", batch.idx, "uncalibed"))>>,
     chamfer |-> <<Pcd("train", batch.idx, "calibed"), Pcd("train", batch.idx, "uncalibed")>>]

TrainLossInputs == [photo |-> <<DepthOf(Pcd("train", batch.idx, "calibed")), uncalibed_depth_img>>,
                    chamfer |-> <<Pcd("train", batch.idx, "calibed"), uncalibed_pcd>>]

TrainLoss ==
    /\ pc = "train_loss"
    /\ loss' = TrainLossInputs
    /\ calls' = calls \o <<Call("photo_loss", TrainLossInputs.photo, << >>),
                           Call("chamfer_loss", TrainLossInputs.chamfer, << >>)>>
    /\ pc' = "train_backward"
    /\ UNCHANGED <<run, exc, cfgvars, loadervars, modelvars, runvars, batchvars, valvars, diskvars>>

TrainBackward ==
    /\ pc = "train_backward"
    /\ grads' = Append(grads, <<epoch, batch.idx>>)
    /\ calls' = Append(calls, Call("backward", <<loss>>, << >>))
    /\ pc' = "train_step"
    /\ UNCHANGED <<run, exc, cfgvars, loadervars, params, mode, optimizer, scheduler, runvars,
                   batchvars, loss, valvars, diskvars>>

TrainStep ==
    /\ pc = "train_step"
    /\ params' = Append(params, <<epoch, bidx>>)
    /\ optimizer' = [optimizer EXCEPT !.steps = @ + 1]
    /\ calls' = Append(calls, Call("step", grads, << >>))
    /\ bidx' = bidx + 1
    /\ pc' = "train_fetch"
    /\ UNCHANGED <<run, exc, cfgvars, loadervars, mode, grads, scheduler, runvars,
                   batch, it, twist, extran, uncalibed_pcd, uncalibed_depth_img, g0,
                   loss, valvars, diskvars>>

TrainEpochEnd ==
    /\ pc = "train_epoch_end"
    /\ IF NumBatches(train_loader) = 0
       THEN /\ exc' = "ZeroDivisionError"
            /\ pc' = "failed"
            /\ UNCHANGED <<scheduler, optimizer>>
       ELSE /\ scheduler' = scheduler + 1
            /\ optimizer' = [optimizer EXCEPT !.lr_k = @ + 1]
            /\ pc' = "val_head"
            /\ exc' = exc
    /\ UNCHANGED <<run, cfgvars, loadervars, params, mode, grads, runvars, batchvars,
                   loss, valvars, diskvars, calls>>


(* ---------------- val() ---------------- *)
ValHead ==
    /\ pc = "val_head"
    /\ mode' = "eval"
    /\ total_dR' = 0
    /\ total_dT' = 0
    /\ bidx' = 0
    /\ pc' = "val_fetch"
    /\ UNCHANGED <<run, exc, cfgvars, loadervars, params, optimizer, grads, scheduler, runvars,
                   batch, it, twist, extran, uncalibed_pcd, uncalibed_depth_img, g0,
                   loss, loss_dx, val_hist, diskvars, calls>>

(* mutant: the working cloud is not taken from the new batch *)
ValFetchKeepsCloud ==
    /\ pc = "val_fetch"
    /\ IF bidx < NumBatches(val_loader)
       THEN /\ \E gt \in IGTs :
                 batch' = [split |-> "val", idx |-> bidx, size |-> BatchSize(val_loader, bidx), igt |-> gt]
            /\ uncalibed_pcd' = uncalibed_pcd
            /\ uncalibed_depth_img' = DepthOf(Pcd("val", bidx, "uncalibed"))
            /\ g0' = Eye
            /\ it' = 0
            /\ calls' = << >>
            /\ pc' = IF InnerLoopDone(0, args.inner_iter) THEN "val_geodesic" ELSE "val_predict"
            /\ UNCHANGED <<twist, extran, loss>>
       ELSE /\ pc' = "val_end"
            /\ LoopLocalsDead
            /\ g0' = Eye
    /\ UNCHANGED <<run, exc, cfgvars, loadervars, modelvars, runvars,
                   bidx, valvars, diskvars>>

ValFetch ==
    /\ pc = "val_fetch"
    /\ IF bidx < NumBatches(val_loader)
       THEN /\ \E gt \in IGTs :
                 batch' = [split |-> "val", idx |-> bidx, size |-> BatchSize(val_loader, bidx), igt |-> gt]
            /\ uncalibed_pcd' = Pcd("val", bidx, "uncalibed")
            /\ uncalibed_depth_img' = DepthOf(Pcd("val", bidx, "uncalibed"))
            /\ g0' = Eye
            /\ it' = 0
            /\ calls' = << >>
            /\ pc' = IF InnerLoopDone(0, args.inner_iter) THEN "val_geodesic" ELSE "val_predict"
            /\ UNCHANGED <<twist, extran, loss>>
       ELSE /\ pc' = "val_end"
            /\ LoopLocalsDead
            /\ g0' = Eye
    /\ UNCHANGED <<run, exc, cfgvars, loadervars, modelvars, runvars,
                   bidx, valvars, diskvars>>

ValPredict ==
    /\ pc = "val_predict"
    /\ \E tw \in Twists :
          /\ twist' = tw
          /\ calls' = Append(calls, Call("model", <<Img(batch), uncalibed_depth_img>>, <<tw>>))
    /\ pc' = "val_exp"
    /\ UNCHANGED <<run, exc, cfgvars, loadervars, modelvars, runvars,
                   bidx, batch, it, extran, uncalibed_pcd, uncalibed_depth_img, g0,
                   loss, valvars, diskvars>>

ValExp ==
    /\ pc = "val_exp"
    /\ extran' = Exp(twist)
    /\ calls' = Append(calls, Call("exp", <<twist>>, <<Exp(twist)>>))
    /\ pc' = "val_reproject"
    /\ UNCHANGED <<run, exc, cfgvars, loadervars, modelvars, runvars,
                   bidx, batch, it, twist, uncalibed_pcd, uncalibed_depth_img, g0,
                   loss, valvars, diskvars>>

ValReproject ==
    /\ pc = "val_reproject"
    /\ LET r == depth_generator(extran, uncalibed_pcd)
       IN /\ uncalibed_depth_img' = r[1]
          /\ uncalibed_pcd' = r[2]
          /\ calls' = Append(calls, Call("depth_generator", <<extran, uncalibed_pcd>>, r))
    /\ g0' = Accumulate(g0, extran)
    /\ it' = it + 1
    /\ pc' = IF InnerLoopDone(it + 1, args.inner_iter) THEN "val_geodesic" ELSE "val_predict"
    /\ UNCHANGED <<run, exc, cfgvars, loadervars, modelvars, runvars,
                   bidx, batch, twist, extran, loss, valvars, diskvars>>

(* mutant: the geodesic error is backpropagated and stepped on *)
ValGeodesicBackprop ==
    /\ pc = "val_geodesic"
    /\ LET d == geodesic_distance(g0, batch.igt)
       IN /\ total_dR' = total_dR + d[1]
          /\ total_dT' = total_dT + d[2]
          /\ calls' = Append(calls, Call("geodesic_distance", <<g0, batch.igt>>, d))
    /\ bidx' = bidx + 1
    /\ pc' = "val_fetch"
    /\ params' = Append(params, <<epoch, bidx>>)
    /\ optimizer' = [optimizer EXCEPT !.steps = @ + 1]
    /\ UNCHANGED <<run, exc, cfgvars, loadervars, mode, grads, scheduler, runvars,
                   batch, it, twist, extran, uncalibed_pcd, uncalibed_depth_img, g0,
                   loss, loss_dx, val_hist, diskvars>>

ValGeodesic ==
    /\ pc = "val_geodesic"
    /\ LET d == geodesic_distance(g0, batch.igt)
       IN /\ total_dR' = total_dR + d[1]
          /\ total_dT' = total_dT + d[2]
          /\ calls' = Append(calls, Call("geodesic_distance", <<g0, batch.igt>>, d))
    /\ bidx' = bidx + 1
    /\ pc' = "val_fetch"
    /\ UNCHANGED <<run, exc, cfgvars, loadervars, modelvars, runvars,
                   batch, it, twist, extran, uncalibed_pcd, uncalibed_depth_img, g0,
                   loss, loss_dx, val_hist, diskvars>>

ValEnd ==
    /\ pc = "val_end"
    /\ IF NumBatches(val_loader) = 0
       THEN /\ exc' = "ZeroDivisionError"
            /\ pc' = "failed"
            /\ UNCHANGED <<loss_dx, val_hist>>
       ELSE /\ loss_dx' = Div(total_dR + total_dT, NumBatches(val_loader))
            /\ val_hist' = Append(val_hist, Div(total_dR + total_dT, NumBatches(val_loader)))
            /\ pc' = "save_best"
            /\ exc' = exc
    /\ UNCHANGED <<run, cfgvars, loadervars, modelvars, runvars, batchvars,
                   loss, total_dR, total_dT, diskvars, calls>>

(* ---------------- train(): end of epoch ---------------- *)
SaveBest ==
    /\ pc = "save_best"
    /\ IF Improves(loss_dx, min_loss)
       THEN /\ min_loss' = loss_dx
            /\ files' = [files EXCEPT !.best = <<[Checkpoint EXCEPT !.min_loss = loss_dx]>>]
            /\ writes' = [writes EXCEPT !.best = @ + 1]
       ELSE UNCHANGED <<min_loss, files, writes>>
    /\ pc' = "save_last"
    /\ UNCHANGED <<run, exc, cfgvars, loadervars, modelvars, start_epoch, epoch, min0,
                   batchvars, loss, valvars, calls>>

SaveLast ==
    /\ pc = "save_last"
    /\ files' = [files EXCEPT !.last = <<Checkpoint>>]
    /\ writes' = [writes EXCEPT !.last = @ + 1]
    /\ epoch' = epoch + 1
    /\ pc' = "epoch_head"
    /\ UNCHANGED <<run, exc, cfgvars, loadervars, modelvars, start_epoch, min_loss, min0,
                   batchvars, loss, valvars, calls>>

(* ---------------- exceptions ---------------- *)
CallSites == {"train_predict", "train_exp", "train_reproject",
              "val_predict", "val_exp", "val_reproject"}

(* mutant: the exception is caught and the loop goes on *)
RaiseSwallowed ==
    /\ pc \in CallSites
    /\ exc' = pc
    /\ pc' = pc
    /\ UNCHANGED <<run, cfgvars, loadervars, modelvars, runvars, batchvars, loss, valvars, diskvars, calls>>

(* a predictor, exp or reprojector call raises: nothing in train()/val() catches it *)
Raise ==
    /\ pc \in CallSites
    /\ exc' = pc
    /\ pc' = "failed"
    /\ UNCHANGED <<run, cfgvars, loadervars, modelvars, runvars, batchvars, loss, valvars, diskvars, calls>>

(* the script is started again, fresh or with --resume on a checkpoint on disk *)
Restart ==
    /\ pc \in {"done", "failed"}
    /\ run < MaxRuns
    /\ run' = run + 1
    /\ \E r \in {""} \cup {f \in {"best", "last"} : files[f] # << >>} :
          args' = [args EXCEPT !.resume = r]
    /\ pc' = "main"
    /\ exc' = "none"
    /\ train_loader' = NoLoader
    /\ val_loader' = NoLoader
    /\ params' = << >>
    /\ mode' = "train"
    /\ optimizer' = [steps |-> 0, lr_k |-> 0]
    /\ grads' = << >>
    /\ scheduler' = 0
    /\ start_epoch' = 0
    /\ epoch' = 0
    /\ min_loss' = Inf
    /\ min0' = Inf
    /\ bidx' = 0
    /\ batch' = NoBatch
    /\ it' = 0
    /\ twist' = <<0, 0>>
    /\ extran' = Eye
    /\ uncalibed_pcd' = NoPcd
    /\ uncalibed_depth_img' = DepthOf(NoPcd)
    /\ g0' = Eye
    /\ loss' = NoLoss
    /\ total_dR' = 0
    /\ total_dT' = 0
    /\ loss_dx' = Inf
    /\ calls' = << >>
    /\ val_hist' = << >>
    /\ UNCHANGED <<dataset, diskvars>>

Next ==
    \/ Main
    \/ TrainInit
    \/ EpochHead
    \/ TrainFetch
    \/ TrainPredict
    \/ TrainExp
    \/ TrainReproject
    \/ TrainLoss
    \/ TrainBackward
    \/ TrainStep
    \/ TrainEpochEnd
    \/ ValHead
    \/ ValFetch
    \/ ValPredict
    \/ ValExp
    \/ ValReproject
    \/ ValGeodesic
    \/ ValEnd
    \/ SaveBest
    \/ SaveLast
    \/ Raise
    \/ Restart

Spec == Init /\ [][Next]_vars

(* the interpreter keeps executing the script: some enabled step is taken *)
FairSpec == Spec /\ WF_vars(Next)


(* ======================================================================= *)
(* Properties                                                              *)
(* ======================================================================= *)
CallsOf(fn) == SelectSeq(calls, LAMBDA c : c.fn = fn)

FnNames == [i \in 1..Len(calls) |-> calls[i].fn]

(* the incremental transforms E1..Ek returned by exp so far in this refinement run *)
Extrans == [i \in 1..Len(CallsOf("exp")) |-> CallsOf("exp")[i].out[1]]

IsPrefix(s, t) == Len(s) <= Len(t) /\ s = SubSeq(t, 1, Len(s))

RECURSIVE Iterations(_)
Iterations(n) == IF n = 0 THEN << >> ELSE Iterations(n - 1) \o <<"model", "exp", "depth_generator">>

ExpectedCalls(split) ==
    IF split = "train"
    THEN <<"zero_grad">> \o Iterations(args.inner_iter) \o <<"photo_loss", "chamfer_loss", "backward", "step">>
    ELSE Iterations(args.inner_iter) \o <<"geodesic_distance">>

InRefinement == pc \in {"train_predict", "train_exp", "train_reproject", "train_loss",
                        "train_backward", "train_step",
                        "val_predict", "val_exp", "val_reproject", "val_geodesic"}

(* C1: in a validation refinement run, the g0 handed to geodesic_distance  *)
(* after the inner loop is the ordered right-product E1 . E2 . ... . En of *)
(* the incremental transforms of the run's iterations.                     *)
C1_AccumulatedIsProduct ==
    pc = "val_geodesic" => g0 = Product(Extrans)

C2_CounterSteps ==
    /\ (pc \in {"train_reproject", "val_reproject"} /\ pc' # "failed" => it' = (it + 1))
    /\ (pc \in {"train_predict", "train_exp", "val_predict", "val_exp"} => it' = it)

(* C2: every refinement run performs exactly inner_iter iterations, each a *)
(* predictor call, then an exp call, then a reprojection; the losses       *)
(* (train) or the geodesic error (val) come only after the last iteration; *)
(* the iteration counter is bounded by inner_iter and grows with every     *)
(* reprojection, and a run inside the inner loop always leaves it.         *)
C2_FixedIterations ==
    /\ [](batch.split # "none" =>
            /\ IsPrefix(FnNames, ExpectedCalls(batch.split))
            /\ it <= args.inner_iter
            /\ Len(CallsOf("depth_generator")) = it
            /\ (pc \in {"train_loss", "train_backward", "train_step", "val_geodesic"}
                  => it = args.inner_iter))
    /\ [][C2_CounterSteps]_vars
    /\ (pc \in CallSites ~> pc \notin CallSites)

C2_Witness ==
    /\ pc = "train_backward"
    /\ args.inner_iter = 2
    /\ Len(CallsOf("model")) = 2
    /\ Len(CallsOf("depth_generator")) = 2

(* C3: the i-th reprojection of a run gets the i-th incremental transform  *)
(* (not the product of the first i) and the cloud returned by reprojection *)
(* i-1 (the batch's uncalibrated cloud for i = 1); the i-th predictor call *)
(* gets the depth image returned by reprojection i-1 (the batch's          *)
(* uncalibrated depth image for i = 1) and always the batch's RGB image.   *)
C3_IncrementalReprojection ==
    batch.split # "none" =>
        LET dg == CallsOf("depth_generator")
            md == CallsOf("model")
            pcd0 == Pcd(batch.split, batch.idx, "uncalibed")
        IN /\ \A i \in 1..Len(dg) :
                /\ dg[i].in[1] = Extrans[i]
                /\ (Product(SubSeq(Extrans, 1, i)) # Extrans[i]
                      => dg[i].in[1] # Product(SubSeq(Extrans, 1, i)))
                /\ dg[i].in[2] = IF i = 1 THEN pcd0 ELSE dg[i - 1].out[2]
           /\ \A i \in 1..Len(md) :
                /\ md[i].in[1] = Img(batch)
                /\ md[i].in[2] = IF i = 1 THEN DepthOf(pcd0) ELSE dg[i - 1].out[1]

C3_Witness ==
    /\ pc = "val_geodesic"
    /\ Len(CallsOf("model")) = 2
    /\ Len(CallsOf("depth_generator")) = 2
    /\ Product(Extrans) # Extrans[2]

(* C4: a refinement run starts from the current batch only: g0 is the      *)
(* identity (val) and the working cloud and depth image are the batch's    *)
(* uncalibrated ones; at every point of a run the working cloud is the     *)
(* current batch's cloud with exactly this run's transforms applied, so    *)
(* nothing produced for an earlier batch is read.                          *)
C4_FreshWorkingState ==
    batch.split # "none" =>
        /\ uncalibed_pcd = [Pcd(batch.split, batch.idx, "uncalibed") EXCEPT
                               !.applied = [i \in 1..it |-> Extrans[i]]]
        /\ uncalibed_depth_img = DepthOf(uncalibed_pcd)
        /\ (it = 0 => /\ uncalibed_pcd = Pcd(batch.split, batch.idx, "uncalibed")
                      /\ (batch.split = "val" => g0 = Eye))
        /\ \A i \in 1..Len(calls) :
              calls[i].fn = "depth_generator" =>
                  /\ calls[i].in[2].split = batch.split
                  /\ calls[i].in[2].idx = batch.idx
                  /\ Len(calls[i].in[2].applied) < it

C4_Witness ==
    /\ pc = "val_predict"
    /\ it = 0
    /\ batch.idx = 1
    /\ epoch = 1
    /\ args.inner_iter = 2


C5_NothingAfterFailure ==
    exc # "none" /\ run' = run =>
        /\ pc' = "failed"
        /\ UNCHANGED <<params, optimizer, grads, scheduler, files, writes, calls, it,
                       uncalibed_pcd, uncalibed_depth_img, g0, min_loss, epoch, bidx>>

(* C5: a failure of the predictor, exp or the reprojector leaves train/val *)
(* as an exception: the run is then over, the call that failed is the last *)
(* call made (it is not made again and no later iteration runs), and no    *)
(* optimizer step or checkpoint write follows.                             *)
C5_FailurePropagates ==
    /\ [](exc # "none" => pc = "failed")
    /\ [](exc \in CallSites => Len(CallsOf("depth_generator")) = it /\ it < args.inner_iter)
    /\ [][C5_NothingAfterFailure]_vars

C5_Witness ==
    /\ pc = "failed"
    /\ exc = "train_reproject"
    /\ it = 1
    /\ writes.last = 1
    /\ run = 1

ValPcs == {"val_head", "val_fetch", "val_predict", "val_exp", "val_reproject",
           "val_geodesic", "val_end"}

C6_ValStep ==
    pc \in ValPcs => UNCHANGED <<params, optimizer, grads, scheduler>>

C6_ResultUse ==
    pc \in {"save_best", "save_last"} =>
        /\ UNCHANGED <<params, optimizer, grads, scheduler>>
        /\ \A f \in {"best", "last"} :
              files'[f] # files[f] =>
                  /\ files'[f][1].model = params
                  /\ files'[f][1].optimizer = optimizer
                  /\ files'[f][1].epoch = epoch

(* C6: val never backpropagates: no step of val changes the model          *)
(* parameters, the optimizer state (momentum buffers, learning rate), the  *)
(* gradients or the scheduler; what val returns ends up only in min_loss   *)
(* and in whether the best checkpoint is written, never in the parameters, *)
(* optimizer state or epoch stored in a checkpoint.                        *)
C6_ValHasNoTrainingEffect ==
    /\ [][C6_ValStep]_vars
    /\ [][C6_ResultUse]_vars

C6_Witness ==
    /\ pc = "val_end"
    /\ bidx = 2
    /\ optimizer.steps = 2
    /\ optimizer.lr_k = 1
    /\ mode = "eval"

TrainBatches == NumBatches(Loader(dataset.train, args.batch_size))

(* the optimizer steps of epochs 0, 1, ... in order, each batch once *)
Canonical(p) == \A i \in 1..Len(p) : p[i] = <<(i - 1) \div TrainBatches, (i - 1) % TrainBatches>>

CheckpointKeys == {"model", "optimizer", "min_loss", "epoch"}

(* C7: a checkpoint holds exactly model, optimizer, min_loss and epoch; a  *)
(* checkpoint of epoch e holds the parameters after epochs 0..e; a resumed *)
(* run takes over the checkpoint's min_loss and starts at epoch e+1, and   *)
(* the optimizer steps behind the parameters are always those of epochs    *)
(* 0, 1, 2, ... in order, none twice and none left out.                    *)
C7_ResumeContinues ==
    /\ \A f \in {"best", "last"} :
          files[f] # << >> =>
              /\ DOMAIN files[f][1] = CheckpointKeys
              /\ Canonical(files[f][1].model)
              /\ Len(files[f][1].model) = (files[f][1].epoch + 1) * TrainBatches
              /\ files[f][1].optimizer.steps = Len(files[f][1].model)
    /\ Canonical(params)
    /\ (pc = "epoch_head" => Len(params) = epoch * TrainBatches)
    /\ optimizer.steps = Len(params)
    /\ (args.resume # "" /\ pc \notin {"main", "train_init"} /\ val_hist = << >> /\ exc = "none" =>
            /\ start_epoch = files[args.resume][1].epoch + 1
            /\ min_loss = files[args.resume][1].min_loss
            /\ (pc = "epoch_head" => params = files[args.resume][1].model
                                     /\ optimizer = files[args.resume][1].optimizer))

C7_Witness ==
    /\ run = 2
    /\ args.resume = "last"
    /\ start_epoch = 1
    /\ pc = "train_fetch"
    /\ Len(params) = 2 * TrainBatches
    /\ TrainBatches > 0
    /\ min_loss # Inf

(* C8: no batch a DataLoader yields has size 1, whatever the dataset       *)
(* length and batch_size.                                                  *)
C8_NoBatchOfSizeOne ==
    batch.split # "none" => batch.size # 1


LastReprojection == CallsOf("depth_generator")[Len(CallsOf("depth_generator"))]

(* C9: a training batch gets exactly one optimizer update, after zero_grad,*)
(* the inner loop, the loss and backward, in that order; for inner_iter    *)
(* >= 1 the photometric loss compares the reference depth image with the   *)
(* depth image of the last reprojection and the chamfer loss the reference *)
(* cloud with the cloud of the last reprojection, never an intermediate    *)
(* output or the uncalibrated input; the gradient stepped on is that of    *)
(* this batch's loss alone.                                                *)
C9_OneUpdateOnFinalOutputs ==
    batch.split = "train" =>
        /\ (pc = "train_fetch" => FnNames = ExpectedCalls("train"))
        /\ Len(CallsOf("step")) = (IF pc = "train_fetch" THEN 1 ELSE 0)
        /\ Len(params) = epoch * TrainBatches + batch.idx + Len(CallsOf("step"))
        /\ \A i \in 1..Len(calls) :
              /\ calls[i].fn = "step" => calls[i].in = <<<<epoch, batch.idx>>>>
              /\ calls[i].fn = "backward" =>
                    calls[i].in[1] = [photo |-> CallsOf("photo_loss")[1].in,
                                      chamfer |-> CallsOf("chamfer_loss")[1].in]
              /\ (calls[i].fn = "photo_loss" /\ args.inner_iter >= 1) =>
                    /\ calls[i].in = <<DepthOf(Pcd("train", batch.idx, "calibed")), LastReprojection.out[1]>>
                    /\ Len(calls[i].in[2].depth_of.applied) = args.inner_iter
              /\ (calls[i].fn = "chamfer_loss" /\ args.inner_iter >= 1) =>
                    /\ calls[i].in = <<Pcd("train", batch.idx, "calibed"), LastReprojection.out[2]>>
                    /\ Len(calls[i].in[2].applied) = args.inner_iter

C9_Witness ==
    /\ pc = "train_fetch"
    /\ batch.split = "train"
    /\ batch.idx = 1
    /\ args.inner_iter = 2
    /\ Len(CallsOf("step")) = 1

RECURSIVE MinOf(_, _)
MinOf(m, hist) ==
    IF hist = << >> THEN m
    ELSE LET r == MinOf(m, SubSeq(hist, 1, Len(hist) - 1))
         IN IF Less(hist[Len(hist)], r) THEN hist[Len(hist)] ELSE r

EpochCompleted == pc \in {"epoch_head", "done"} /\ val_hist # << >>

C10_EpochEndSteps ==
    /\ (pc # "train_init" /\ run' = run => ~Less(min_loss, min_loss'))
    /\ (pc = "save_best" =>
           /\ (writes'.best = writes.best + 1) \/ (writes'.best = writes.best /\ files'.best = files.best)
           /\ (writes'.best = writes.best + 1) <=> Less(loss_dx, min_loss)
           /\ writes'.last = writes.last)
    /\ (pc = "save_last" =>
           /\ writes'.last = writes.last + 1
           /\ files'.last[1].epoch = epoch
           /\ files'.last[1].min_loss = min_loss
           /\ epoch' = epoch + 1
           /\ writes'.best = writes.best)
    /\ (pc \notin {"save_best", "save_last"} => UNCHANGED <<files, writes>>)

(* C10: after every completed epoch min_loss is the minimum of its value   *)
(* at the start of the run and the loss_dx of every validation of the run, *)
(* and it never increases during a run; the best checkpoint is written in  *)
(* an epoch exactly when that epoch's loss_dx is below the previous        *)
(* min_loss; the last checkpoint is written after every epoch with that    *)
(* epoch's index and the current min_loss; so the best checkpoint's epoch  *)
(* is never later than the last checkpoint's.                              *)
C10_MinLossAndCheckpoints ==
    /\ [](EpochCompleted =>
            /\ min_loss = MinOf(min0, val_hist)
            /\ Len(val_hist) = epoch - start_epoch
            /\ files.last # << >>
            /\ files.last[1].epoch = epoch - 1
            /\ files.last[1].min_loss = min_loss
            /\ (files.best # << >> => files.best[1].epoch <= files.last[1].epoch))
    /\ [][C10_EpochEndSteps]_vars

C10_Witness ==
    /\ pc = "epoch_head"
    /\ Len(val_hist) = 2
    /\ writes.best = 1
    /\ writes.last = 2
    /\ files.best[1].epoch = 0
    /\ files.last[1].epoch = 1


TrainPcs == {"train_fetch", "train_predict", "train_exp", "train_reproject",
             "train_loss", "train_backward", "train_step", "train_epoch_end"}

C11_SchedulerSteps ==
    /\ (scheduler' # scheduler /\ run' = run /\ pc # "train_init" =>
           /\ pc = "train_epoch_end"
           /\ pc' = "val_head"
           /\ scheduler' = scheduler + 1
           /\ optimizer'.lr_k = optimizer.lr_k + 1
           /\ bidx = NumBatches(train_loader)
           /\ Len(params) = (epoch + 1) * TrainBatches)
    /\ (params' # params /\ pc = "train_step" => scheduler = epoch - start_epoch)
    /\ (pc = "train_epoch_end" /\ pc' = "val_head" => scheduler' = scheduler + 1)

(* C11: every training batch is processed with the model in training mode  *)
(* and every validation batch with the model in evaluation mode, in every  *)
(* epoch; the scheduler steps exactly once per epoch, after all of the     *)
(* epoch's optimizer steps and right before the epoch's validation.        *)
C11_ModesAndScheduler ==
    /\ [](pc \in TrainPcs => mode = "train")
    /\ [](pc \in (ValPcs \ {"val_head"}) => mode = "eval")
    /\ [](pc \in TrainPcs \cup {"epoch_head", "done"} => scheduler = epoch - start_epoch)
    /\ [](pc \in ValPcs \cup {"save_best", "save_last"} => scheduler = (epoch - start_epoch) + 1)
    /\ [][C11_SchedulerSteps]_vars

C11_Witness ==
    /\ pc = "train_predict"
    /\ epoch = 1
    /\ start_epoch = 0
    /\ batch.idx = 1
    /\ mode = "train"
    /\ scheduler = 1
    /\ writes.last = 1

(* C12: with at least one sample and batch_size >= 1 every epoch runs to   *)
(* completion: the per-epoch averages of train and val are divided by a    *)
(* number of batches that is at least 1, so no division by zero occurs.    *)
C12_NoDivisionByZero ==
    /\ (pc = "train_epoch_end" => NumBatches(train_loader) >= 1)
    /\ (pc = "val_end" => NumBatches(val_loader) >= 1)
    /\ exc # "ZeroDivisionError"

====
